---- MODULE Spec2Model ----
(***************************************************************************)
(* Reconciliation engine of the payment settlement back-office:            *)
(* runReconciliation (reconciliationController) over the Transaction,      *)
(* Merchant, ReconciliationRun and Alert collections, and the two other    *)
(* handlers that write reconciliation_status: resolveDispute and           *)
(* bulkUpdateTransactions.                                                 *)
(*                                                                         *)
(* One action per awaited call of the handler: the handler yields to the   *)
(* event loop at every await, so another invocation may run between two    *)
(* of them, and every awaited call may reject.                             *)
(***************************************************************************)
EXTENDS Integers, Sequences, FiniteSets, TLC

\* ------------------------------------------------------------------ bounds
\* Largest number of BANK and of MERCHANT documents in the store, and the
\* number of run _ids.
MaxBank == 2
MaxMerchant == 2
MaxRuns == 2

\* ------------------------------------------------------------- enumerations
RunIds == 1..MaxRuns
NoDate == -1
Null == 0

PENDING == "PENDING"
MATCHED == "MATCHED"
UNMATCHED_BANK == "UNMATCHED_BANK"
UNMATCHED_MERCHANT == "UNMATCHED_MERCHANT"
AMOUNT_MISMATCH == "AMOUNT_MISMATCH"

VARIABLES
    txns,       \* Transaction collection: _id -> document
    merchants,  \* Merchant collection: the registered merchant_id values
    alerts,     \* Alert collection: the documents createAlert saved, in order
    runs,       \* ReconciliationRun collection: run _id -> persisted document
    req,        \* req.body of each invocation (NoReq: no such invocation)
    run,        \* the handler's in-memory run document
    loc,        \* the handler's local variables
    pc,         \* the await each invocation is suspended at
    resp,       \* what the caller received: "200" or the error's message
    writes,     \* history: per transaction, the runs that wrote its status
    pairs       \* history: <<run, bank _id, merchant _id, stage>> selections

vars == <<txns, merchants, alerts, runs, req, run, loc, pc, resp, writes, pairs>>

NoReq == [none |-> TRUE]
NoRun == [status |-> "NONE"]

\* ---------------------------------------------------------------- helpers
Abs(x) == IF x < 0 THEN -x ELSE x

RECURSIVE SumSeq(_)
SumSeq(s) == IF s = <<>> THEN 0 ELSE Head(s) + SumSeq(Tail(s))

\* The ids 1..n in store (insertion) order, as find() returns them.
StoreOrder(n) == [k \in 1..n |-> k]

\* String.prototype.toUpperCase on the merchant ids a request may carry.
ToUpperCase(m) ==
    CASE m = "m1" -> "M1"
      [] m = "m2" -> "M2"
      [] OTHER -> m

\* A fresh Transaction document (schema defaults).
NewTxn(src, tid, mid, amt, date) ==
    [source |-> src, transaction_id |-> tid, merchant_id |-> mid,
     amount |-> amt, transaction_date |-> date,
     reconciliation_status |-> PENDING, reconciled_with |-> Null,
     reconciliation_run_id |-> Null, is_disputed |-> FALSE,
     dispute_amount |-> Null, dispute_resolved |-> FALSE]

\* A fresh ReconciliationRun document (schema defaults, status RUNNING).
NewRun ==
    [status |-> "RUNNING",
     total_bank_transactions |-> 0, total_merchant_transactions |-> 0,
     matched |-> 0, unmatched_bank |-> 0, unmatched_merchant |-> 0,
     amount_mismatch |-> 0, disputes_detected |-> 0, sla_breaches |-> 0,
     unknown_merchants |-> 0,
     total_matched_amount |-> 0, total_unmatched_bank_amount |-> 0,
     total_unmatched_merchant_amount |-> 0, total_mismatch_difference |-> 0,
     merchant_summary |-> <<>>, errors |-> <<>>]

NoLoc ==
    [bankTransactions |-> <<>>, merchantTransactions |-> <<>>,
     matchedBankIds |-> {}, matchedMerchantIds |-> {},
     merchantSummary |-> <<>>, i |-> 1, j |-> 1, k |-> 1,
     other |-> Null]


\* ------------------------------------------------------------ request body
\* transaction_date values are whole hours, so that the handler's
\* Math.abs(bankDate - merchantDate) / (1000 * 60 * 60) is Abs(a - b).
\* The bodies cover: window 0 (only equal dates are eligible) and 1; no
\* tolerance (the default) and tolerance 1; no date range and a range that
\* starts at hour 1.
Configs ==
    [date_window_hours : {0, 1},
     amount_tolerance : {0, 1},
     include_merchants : {{}},
     exclude_merchants : {{}},
     start_date : {NoDate, 1},
     end_date : {NoDate}]

\* Variant of BaseQuery that leaves out the transaction_date range.
BaseQueryWithoutRange(cfg, t) ==
    /\ t.reconciliation_status = PENDING
    /\ (cfg.include_merchants # {} =>
            t.merchant_id \in {ToUpperCase(m) : m \in cfg.include_merchants})
    /\ (cfg.exclude_merchants # {} =>
            t.merchant_id \notin {ToUpperCase(m) : m \in cfg.exclude_merchants})

\* baseQuery: PENDING, inside the date range, inside the merchant sets.
BaseQuery(cfg, t) ==
    /\ t.reconciliation_status = PENDING
    /\ (cfg.start_date # NoDate => t.transaction_date >= cfg.start_date)
    /\ (cfg.end_date # NoDate => t.transaction_date <= cfg.end_date)
    /\ (cfg.include_merchants # {} =>
            t.merchant_id \in {ToUpperCase(m) : m \in cfg.include_merchants})
    /\ (cfg.exclude_merchants # {} =>
            t.merchant_id \notin {ToUpperCase(m) : m \in cfg.exclude_merchants})

\* Variant of FindPool whose query leaves out the PENDING condition.
FindPoolAnyStatus(cfg, src) ==
    SelectSeq(StoreOrder(Len(txns)),
              LAMBDA id :
                  /\ txns[id].source = src
                  /\ BaseQuery(cfg, [txns[id] EXCEPT !.reconciliation_status = PENDING]))

\* Transaction.find({...baseQuery, source}).lean(): the _ids, in store order.
\* The handler reads only _id, transaction_id, merchant_id, amount and
\* transaction_date from the snapshot, which nothing modelled here changes.
FindPool(cfg, src) ==
    SelectSeq(StoreOrder(Len(txns)),
              LAMBDA id : txns[id].source = src /\ BaseQuery(cfg, txns[id]))

\* Variant of MatchKey that also puts the transaction_date into the key.
MatchKeyWithDate(t) ==
    <<t.transaction_id, t.merchant_id, t.amount, t.transaction_date>>

\* The index key `${transaction_id}-${merchant_id}-${amount}`.  No id of the
\* model contains "-", so the joined string and the triple identify the same
\* buckets.
MatchKey(t) == <<t.transaction_id, t.merchant_id, t.amount>>

\* Variant of Bucket whose entries are in reverse pool order (unshift for push).
BucketReversed(pool, key) ==
    LET b == SelectSeq(pool, LAMBDA id : MatchKey(txns[id]) = key)
    IN  [n \in 1..Len(b) |-> b[Len(b) + 1 - n]]

\* merchantTxnMap.get(key) || []: the pool's entries of that key, pool order.
Bucket(pool, key) == SelectSeq(pool, LAMBDA id : MatchKey(txns[id]) = key)

\* Variant of HoursDiff without Math.abs.
HoursDiffSigned(a, b) == a - b

\* Math.abs(bankDate - merchantDate) / (1000 * 60 * 60), dates in hours.
HoursDiff(a, b) == Abs(a - b)

\* Variant of ValidMatches that leaves out the matchedMerchantIds test.
ValidMatchesIgnoringClaims(r) ==
    LET b == txns[loc[r].bankTransactions[loc[r].i]]
    IN  SelectSeq(Bucket(loc[r].merchantTransactions, MatchKey(b)),
                  LAMBDA m :
                      HoursDiff(b.transaction_date, txns[m].transaction_date)
                          <= req[r].date_window_hours)

\* validMatches of the bank record at the loop position of run r.
ValidMatches(r) ==
    LET b == txns[loc[r].bankTransactions[loc[r].i]]
    IN  SelectSeq(Bucket(loc[r].merchantTransactions, MatchKey(b)),
                  LAMBDA m :
                      /\ m \notin loc[r].matchedMerchantIds
                      /\ HoursDiff(b.transaction_date, txns[m].transaction_date)
                            <= req[r].date_window_hours)

\* Variant of FuzzyMatches that leaves out the PENDING condition.
FuzzyMatchesAnyStatus(b) ==
    SelectSeq(StoreOrder(Len(txns)),
              LAMBDA id :
                  /\ txns[id].source = "MERCHANT"
                  /\ txns[id].transaction_id = b.transaction_id
                  /\ txns[id].merchant_id = b.merchant_id)

\* fuzzyMatches: PENDING MERCHANT documents of the store with the bank
\* record's transaction_id and merchant_id (no amount, no date range).
FuzzyMatches(b) ==
    SelectSeq(StoreOrder(Len(txns)),
              LAMBDA id :
                  /\ txns[id].source = "MERCHANT"
                  /\ txns[id].transaction_id = b.transaction_id
                  /\ txns[id].merchant_id = b.merchant_id
                  /\ txns[id].reconciliation_status = PENDING)

\* amount_tolerance > 0 && amountDiff <= amount_tolerance
WithinTolerance(tol, diff) == tol > 0 /\ diff <= tol

\* updateOne / updateMany: only the fields named in the update change.
Merge(t, upd) == [f \in DOMAIN t |-> IF f \in DOMAIN upd THEN upd[f] ELSE t[f]]

\* ------------------------------------------------- merchantSummary (a Map)
ZeroStats(mid) ==
    [merchant_id |-> mid, matched |-> 0, unmatched |-> 0, mismatches |-> 0,
     total_amount |-> 0]

HasEntry(ms, mid) == \E n \in 1..Len(ms) : ms[n].merchant_id = mid

Ensure(ms, mid) == IF HasEntry(ms, mid) THEN ms ELSE Append(ms, ZeroStats(mid))

\* merchantSummary.get(mid).matched++ and .total_amount += amt
AddMatched(ms, mid, amt) ==
    [n \in 1..Len(Ensure(ms, mid)) |->
        LET e == Ensure(ms, mid)[n]
        IN  IF e.merchant_id = mid
            THEN [e EXCEPT !.matched = @ + 1, !.total_amount = @ + amt]
            ELSE e]

AddMismatch(ms, mid) ==
    [n \in 1..Len(Ensure(ms, mid)) |->
        LET e == Ensure(ms, mid)[n]
        IN  IF e.merchant_id = mid THEN [e EXCEPT !.mismatches = @ + 1] ELSE e]

AddUnmatched(ms, mid) ==
    [n \in 1..Len(Ensure(ms, mid)) |->
        LET e == Ensure(ms, mid)[n]
        IN  IF e.merchant_id = mid THEN [e EXCEPT !.unmatched = @ + 1] ELSE e]


\* ------------------------------------------------------------ initial state
\* The documents ingestion may have stored for one side: a base document
\* and the documents that differ from it in the amount, in the date or in
\* the merchant.  Two documents of the store may thus agree on the whole
\* matching key, differ in the amount only (difference 1), lie 0 or 1 hour
\* apart, lie inside or outside a date range, or belong to different
\* merchants (M2 is not registered).  The seed script and both upload
\* paths store a BANK and a MERCHANT document under one transaction_id, and
\* the engine's buckets hold several documents per key, so documents of the
\* store may share a transaction_id.
TxnDocs(src) ==
    {NewTxn(src, "T1", "M1", 1, 0),
     NewTxn(src, "T1", "M1", 2, 0),
     NewTxn(src, "T1", "M1", 1, 1),
     NewTxn(src, "T1", "M2", 1, 0)}

SeqsUpTo(S, n) == UNION {[1..m -> S] : m \in 0..n}

\* The store after ingestion: every document PENDING, BANK documents first.
\* No run has been requested yet except those of requests.
InitWith(stores, requests) ==
    /\ txns \in stores
    /\ merchants = {"M1"}
    /\ alerts = <<>>
    /\ runs = [r \in RunIds |-> NoRun]
    /\ req \in requests
    /\ run = [r \in RunIds |-> NoRun]
    /\ loc = [r \in RunIds |-> NoLoc]
    /\ pc = [r \in RunIds |-> "idle"]
    /\ resp = [r \in RunIds |-> "none"]
    /\ writes = [id \in 1..Len(txns) |-> <<>>]
    /\ pairs = {}

Stores(nb, nm) ==
    {b \o m : b \in SeqsUpTo(TxnDocs("BANK"), nb),
              m \in SeqsUpTo(TxnDocs("MERCHANT"), nm)}

\* One invocation, any configuration.
OneRequest == {[r \in RunIds |-> IF r = 1 THEN c ELSE NoReq] : c \in Configs}

Init == InitWith(Stores(MaxBank, MaxMerchant), OneRequest)

\* ------------------------------------------------------------------ actions
BankAt(r) == loc[r].bankTransactions[loc[r].i]

\* Variant of NextUnclaimed whose sweep does not skip claimed records.
NextIgnoringClaims(pool, claimed, from) ==
    IF from <= Len(pool) THEN from ELSE 0

\* Variant of NextUnclaimed whose loop stops one record short of the pool.
NextUnclaimedButLast(pool, claimed, from) ==
    LET c == {n \in from..(Len(pool) - 1) : pool[n] \notin claimed}
    IN  IF c = {} THEN 0 ELSE CHOOSE n \in c : \A o \in c : n <= o

\* First position >= from of pool whose record is not claimed, 0 if none:
\* the sweep's `continue` over claimed records.
NextUnclaimed(pool, claimed, from) ==
    LET c == {n \in from..Len(pool) : pool[n] \notin claimed}
    IN  IF c = {} THEN 0 ELSE CHOOSE n \in c : \A o \in c : n <= o

\* Control after the synchronous code that follows an await of the bank
\* loop or of the sweep: next bank record, next unclaimed merchant record,
\* or the SLA count.
Continue(r, l, rn, from) ==
    LET nj == NextUnclaimed(l.merchantTransactions, l.matchedMerchantIds, from)
    IN  /\ run' = [run EXCEPT ![r] = rn]
        /\ IF l.i <= Len(l.bankTransactions)
           THEN /\ loc' = [loc EXCEPT ![r] = l]
                /\ pc' = [pc EXCEPT ![r] = "bank"]
           ELSE IF nj # 0
           THEN /\ loc' = [loc EXCEPT ![r] = [l EXCEPT !.j = nj]]
                /\ pc' = [pc EXCEPT ![r] = "sweep"]
           ELSE /\ loc' = [loc EXCEPT ![r] = l]
                /\ pc' = [pc EXCEPT ![r] = "sla"]

\* ReconciliationRun.create({status: 'RUNNING', config})
Create(r) ==
    /\ pc[r] = "idle"
    /\ req[r] # NoReq
    /\ runs' = [runs EXCEPT ![r] = NewRun]
    /\ run' = [run EXCEPT ![r] = NewRun]
    /\ pc' = [pc EXCEPT ![r] = "loadBank"]
    /\ UNCHANGED <<txns, merchants, alerts, req, loc, resp, writes, pairs>>

\* bankTransactions = await Transaction.find({...baseQuery, source: 'BANK'})
LoadBank(r) ==
    /\ pc[r] = "loadBank"
    /\ loc' = [loc EXCEPT ![r].bankTransactions = FindPool(req[r], "BANK")]
    /\ pc' = [pc EXCEPT ![r] = "loadMerchant"]
    /\ UNCHANGED <<txns, merchants, alerts, runs, req, run, resp, writes, pairs>>

\* merchantTransactions = await Transaction.find(...); totals; index; sets
LoadMerchant(r) ==
    LET pool == FindPool(req[r], "MERCHANT")
        l == [loc[r] EXCEPT !.merchantTransactions = pool, !.i = 1]
        rn == [run[r] EXCEPT
                 !.total_bank_transactions = Len(loc[r].bankTransactions),
                 !.total_merchant_transactions = Len(pool)]
    IN  /\ pc[r] = "loadMerchant"
        /\ Continue(r, l, rn, 1)
        /\ UNCHANGED <<txns, merchants, alerts, runs, req, resp, writes, pairs>>

\* Variant of ExactWriteBank whose one write updates both records of the pair.
ExactWriteBoth(r) ==
    /\ pc[r] = "bank"
    /\ ValidMatches(r) # <<>>
    /\ LET m == ValidMatches(r)[1]
       IN  /\ txns' = [txns EXCEPT
                    ![BankAt(r)] =
                        Merge(@, [reconciliation_status |-> MATCHED,
                                  reconciled_with |-> m,
                                  reconciliation_run_id |-> r]),
                    ![m] =
                        Merge(@, [reconciliation_status |-> MATCHED,
                                  reconciled_with |-> BankAt(r),
                                  reconciliation_run_id |-> r])]
           /\ loc' = [loc EXCEPT ![r].other = m]
    /\ writes' = [writes EXCEPT ![BankAt(r)] = Append(@, r)]
    /\ pc' = [pc EXCEPT ![r] = "exactMerchant"]
    /\ pairs' = pairs \cup {<<r, BankAt(r), ValidMatches(r)[1], "exact">>}
    /\ UNCHANGED <<merchants, alerts, runs, req, run, resp>>

\* Exact match, first write: updateOne({_id: bankTxn._id}, MATCHED ...)
ExactWriteBank(r) ==
    /\ pc[r] = "bank"
    /\ ValidMatches(r) # <<>>
    /\ LET m == ValidMatches(r)[1]
       IN  /\ txns' = [txns EXCEPT ![BankAt(r)] =
                    Merge(@, [reconciliation_status |-> MATCHED,
                              reconciled_with |-> m,
                              reconciliation_run_id |-> r])]
           /\ loc' = [loc EXCEPT ![r].other = m]
    /\ writes' = [writes EXCEPT ![BankAt(r)] = Append(@, r)]
    /\ pc' = [pc EXCEPT ![r] = "exactMerchant"]
    /\ pairs' = pairs \cup {<<r, BankAt(r), ValidMatches(r)[1], "exact">>}
    /\ UNCHANGED <<merchants, alerts, runs, req, run, resp>>

\* Variant of ExactWriteMerchant that leaves run.summary.matched alone.
ExactWriteMerchantUncounted(r) ==
    LET b == BankAt(r)
        m == loc[r].other
    IN  /\ pc[r] = "exactMerchant"
        /\ txns' = [txns EXCEPT ![m] =
                 Merge(@, [reconciliation_status |-> MATCHED,
                           reconciled_with |-> b,
                           reconciliation_run_id |-> r])]
        /\ writes' = [writes EXCEPT ![m] = Append(@, r)]
        /\ loc' = [loc EXCEPT
                 ![r].matchedBankIds = @ \cup {b},
                 ![r].matchedMerchantIds = @ \cup {m},
                 ![r].merchantSummary =
                     AddMatched(@, txns[b].merchant_id, txns[b].amount)]
        /\ run' = [run EXCEPT
                 ![r].total_matched_amount = @ + txns[b].amount]
        /\ pc' = [pc EXCEPT ![r] = "lookup"]
        /\ UNCHANGED <<merchants, alerts, runs, req, resp, pairs>>

\* Exact match, second write and the bookkeeping that follows it.
ExactWriteMerchant(r) ==
    LET b == BankAt(r)
        m == loc[r].other
    IN  /\ pc[r] = "exactMerchant"
        /\ txns' = [txns EXCEPT ![m] =
                 Merge(@, [reconciliation_status |-> MATCHED,
                           reconciled_with |-> b,
                           reconciliation_run_id |-> r])]
        /\ writes' = [writes EXCEPT ![m] = Append(@, r)]
        /\ loc' = [loc EXCEPT
                 ![r].matchedBankIds = @ \cup {b},
                 ![r].matchedMerchantIds = @ \cup {m},
                 ![r].merchantSummary =
                     AddMatched(@, txns[b].merchant_id, txns[b].amount)]
        /\ run' = [run EXCEPT
                 ![r].matched = @ + 1,
                 ![r].total_matched_amount = @ + txns[b].amount]
        /\ pc' = [pc EXCEPT ![r] = "lookup"]
        /\ UNCHANGED pairs
        /\ UNCHANGED <<merchants, alerts, runs, req, resp>>

\* No exact match: fuzzyMatches = await Transaction.find({...PENDING}) and
\* the branch on its result.
FuzzyFind(r) ==
    LET b == txns[BankAt(r)]
        fm == FuzzyMatches(b)
    IN  /\ pc[r] = "bank"
        /\ ValidMatches(r) = <<>>
        /\ IF fm # <<>>
           THEN /\ loc' = [loc EXCEPT ![r].other = fm[1]]
                /\ pairs' = pairs \cup {<<r, BankAt(r), fm[1], "fallback">>}
                /\ pc' = [pc EXCEPT ![r] =
                      IF WithinTolerance(req[r].amount_tolerance,
                                         Abs(b.amount - txns[fm[1]].amount))
                      THEN "tolerant" ELSE "mismatchBank"]
           ELSE /\ loc' = loc
                /\ pairs' = pairs
                /\ pc' = [pc EXCEPT ![r] = "unmatchedBank"]
        /\ UNCHANGED <<txns, merchants, alerts, runs, req, run, resp, writes>>

\* Within tolerance: updateMany({_id: {$in: [bank, merchant]}}, MATCHED ...)
TolerantWrite(r) ==
    LET b == BankAt(r)
        m == loc[r].other
        upd == [reconciliation_status |-> MATCHED, reconciliation_run_id |-> r]
    IN  /\ pc[r] = "tolerant"
        /\ txns' = [txns EXCEPT ![b] = Merge(@, upd), ![m] = Merge(@, upd)]
        /\ writes' = [writes EXCEPT ![b] = Append(@, r), ![m] = Append(@, r)]
        /\ run' = [run EXCEPT ![r].matched = @ + 1]
        /\ loc' = [loc EXCEPT
                 ![r].matchedBankIds = @ \cup {b},
                 ![r].matchedMerchantIds = @ \cup {m}]
        /\ pc' = [pc EXCEPT ![r] = "lookup"]
        /\ UNCHANGED pairs
        /\ UNCHANGED <<merchants, alerts, runs, req, resp>>

\* The update both mismatch writes apply.
MismatchUpdate(r, diff) ==
    [reconciliation_status |-> AMOUNT_MISMATCH, is_disputed |-> TRUE,
     dispute_amount |-> diff, reconciliation_run_id |-> r]

AmountDiff(r) == Abs(txns[BankAt(r)].amount - txns[loc[r].other].amount)

\* Amount mismatch, first write (the bank record).
MismatchWriteBank(r) ==
    /\ pc[r] = "mismatchBank"
    /\ txns' = [txns EXCEPT ![BankAt(r)] = Merge(@, MismatchUpdate(r, AmountDiff(r)))]
    /\ writes' = [writes EXCEPT ![BankAt(r)] = Append(@, r)]
    /\ pc' = [pc EXCEPT ![r] = "mismatchMerchant"]
    /\ UNCHANGED pairs
    /\ UNCHANGED <<merchants, alerts, runs, req, run, loc, resp>>

\* Variant of MismatchCounters that counts the bank record as unmatched too.
MismatchCountersAlsoUnmatched(rn, diff) ==
    [rn EXCEPT !.amount_mismatch = @ + 1,
               !.unmatched_bank = @ + 1,
               !.disputes_detected = @ + 1,
               !.total_mismatch_difference = @ + diff]

\* Variant of MismatchCounters that leaves disputes_detected alone.
MismatchCountersNoDispute(rn, diff) ==
    [rn EXCEPT !.amount_mismatch = @ + 1,
               !.total_mismatch_difference = @ + diff]

\* run.summary.amount_mismatch++; disputes_detected++; difference += diff
MismatchCounters(rn, diff) ==
    [rn EXCEPT !.amount_mismatch = @ + 1,
               !.disputes_detected = @ + 1,
               !.total_mismatch_difference = @ + diff]

\* Amount mismatch, second write (the merchant record) and the counters.
MismatchWriteMerchant(r) ==
    /\ pc[r] = "mismatchMerchant"
    /\ txns' = [txns EXCEPT ![loc[r].other] = Merge(@, MismatchUpdate(r, AmountDiff(r)))]
    /\ writes' = [writes EXCEPT ![loc[r].other] = Append(@, r)]
    /\ run' = [run EXCEPT ![r] = MismatchCounters(@, AmountDiff(r))]
    /\ pc' = [pc EXCEPT ![r] = "disputeAlert"]
    /\ UNCHANGED pairs
    /\ UNCHANGED <<merchants, alerts, runs, req, loc, resp>>

\* await Alert.createAlert({type: DISPUTE_DETECTED, severity: 'HIGH', ...}),
\* then the merchantSummary entry and the two claim sets.
DisputeAlert(r) ==
    LET b == BankAt(r)
    IN  /\ pc[r] = "disputeAlert"
        /\ alerts' = Append(alerts,
                 [type |-> "DISPUTE_DETECTED", severity |-> "HIGH",
                  entity_id |-> txns[b].transaction_id, bank |-> b, run |-> r])
        /\ loc' = [loc EXCEPT
                 ![r].merchantSummary = AddMismatch(@, txns[b].merchant_id),
                 ![r].matchedBankIds = @ \cup {b},
                 ![r].matchedMerchantIds = @ \cup {loc[r].other}]
        /\ pc' = [pc EXCEPT ![r] = "lookup"]
        /\ UNCHANGED <<txns, merchants, runs, req, run, resp, writes, pairs>>

\* No candidate: updateOne({_id: bankTxn._id}, UNMATCHED_BANK) and counters.
UnmatchedBankWrite(r) ==
    LET b == BankAt(r)
    IN  /\ pc[r] = "unmatchedBank"
        /\ txns' = [txns EXCEPT ![b] =
                 Merge(@, [reconciliation_status |-> UNMATCHED_BANK,
                           reconciliation_run_id |-> r])]
        /\ writes' = [writes EXCEPT ![b] = Append(@, r)]
        /\ run' = [run EXCEPT
                 ![r].unmatched_bank = @ + 1,
                 ![r].total_unmatched_bank_amount = @ + txns[b].amount]
        /\ loc' = [loc EXCEPT
                 ![r].merchantSummary = AddUnmatched(@, txns[b].merchant_id)]
        /\ pc' = [pc EXCEPT ![r] = "lookup"]
        /\ UNCHANGED pairs
        /\ UNCHANGED <<merchants, alerts, runs, req, resp>>

\* await Merchant.findOne({merchant_id}); unknown_merchants++; next record.
LookupMerchant(r) ==
    LET rn == IF txns[BankAt(r)].merchant_id \in merchants
              THEN run[r]
              ELSE [run[r] EXCEPT !.unknown_merchants = @ + 1]
        l == [loc[r] EXCEPT !.i = @ + 1]
    IN  /\ pc[r] = "lookup"
        /\ Continue(r, l, rn, 1)
        /\ UNCHANGED <<txns, merchants, alerts, runs, req, resp, writes, pairs>>

\* Sweep: updateOne({_id: mTxn._id}, UNMATCHED_MERCHANT) and counters.
SweepWrite(r) ==
    LET m == loc[r].merchantTransactions[loc[r].j]
        rn == [run[r] EXCEPT
                 !.unmatched_merchant = @ + 1,
                 !.total_unmatched_merchant_amount = @ + txns[m].amount]
        l == [loc[r] EXCEPT
                 !.merchantSummary = AddUnmatched(@, txns[m].merchant_id)]
    IN  /\ pc[r] = "sweep"
        /\ txns' = [txns EXCEPT ![m] =
                 Merge(@, [reconciliation_status |-> UNMATCHED_MERCHANT,
                           reconciliation_run_id |-> r])]
        /\ writes' = [writes EXCEPT ![m] = Append(@, r)]
        /\ Continue(r, l, rn, loc[r].j + 1)
        /\ UNCHANGED pairs
        /\ UNCHANGED <<merchants, alerts, runs, req, resp>>


\* run.status = 'COMPLETED' once the merchant summary list is assembled.
Assembled(l, rn) ==
    IF l.k > Len(l.merchantSummary) THEN [rn EXCEPT !.status = "COMPLETED"] ELSE rn

\* sla_breaches = await Transaction.find({run id, sla_breached}).count();
\* sla_breached keeps its schema default (false) on every document here.
\* Then run.merchant_summary = [].
SlaCount(r) ==
    LET l == [loc[r] EXCEPT !.k = 1]
        rn == [run[r] EXCEPT !.sla_breaches = 0, !.merchant_summary = <<>>]
    IN  /\ pc[r] = "sla"
        /\ loc' = [loc EXCEPT ![r] = l]
        /\ run' = [run EXCEPT ![r] = Assembled(l, rn)]
        /\ pc' = [pc EXCEPT ![r] =
                 IF l.k > Len(l.merchantSummary) THEN "save" ELSE "format"]
        /\ UNCHANGED <<txns, merchants, alerts, runs, req, resp, writes, pairs>>

\* One pass of the formatting loop: await Merchant.findOne({merchant_id}),
\* push {merchant_id, merchant_name, ...stats}.
FormatMerchant(r) ==
    LET e == loc[r].merchantSummary[loc[r].k]
        row == [merchant_id |-> e.merchant_id,
                merchant_name |-> IF e.merchant_id \in merchants
                                  THEN e.merchant_id ELSE "Unknown",
                matched |-> e.matched, unmatched |-> e.unmatched,
                mismatches |-> e.mismatches, total_amount |-> e.total_amount]
        l == [loc[r] EXCEPT !.k = @ + 1]
        rn == [run[r] EXCEPT !.merchant_summary = Append(@, row)]
    IN  /\ pc[r] = "format"
        /\ loc' = [loc EXCEPT ![r] = l]
        /\ run' = [run EXCEPT ![r] = Assembled(l, rn)]
        /\ pc' = [pc EXCEPT ![r] =
                 IF l.k > Len(l.merchantSummary) THEN "save" ELSE "format"]
        /\ UNCHANGED <<txns, merchants, alerts, runs, req, resp, writes, pairs>>

\* await run.save() with status COMPLETED
SaveRun(r) ==
    /\ pc[r] = "save"
    /\ runs' = [runs EXCEPT ![r] = run[r]]
    /\ pc' = [pc EXCEPT ![r] = "audit"]
    /\ UNCHANGED <<txns, merchants, alerts, req, run, loc, resp, writes, pairs>>

\* await logAction(...): writes the audit log and swallows its own errors;
\* then the socket event.  Neither touches the collections modelled here.
LogAction(r) ==
    /\ pc[r] = "audit"
    /\ pc' = [pc EXCEPT ![r] = "completeAlert"]
    /\ UNCHANGED <<txns, merchants, alerts, runs, req, run, loc, resp, writes, pairs>>

\* await Alert.createAlert({type: RECONCILIATION_COMPLETE, ...}), then
\* res.status(200).json({success: true, data: {run}}).
CompleteAlert(r) ==
    /\ pc[r] = "completeAlert"
    /\ alerts' = Append(alerts,
             [type |-> "RECONCILIATION_COMPLETE", severity |-> "LOW",
              entity_id |-> "RUN", bank |-> Null, run |-> r])
    /\ resp' = [resp EXCEPT ![r] = "200"]
    /\ pc' = [pc EXCEPT ![r] = "done"]
    /\ UNCHANGED <<txns, merchants, runs, req, run, loc, writes, pairs>>

\* ------------------------------------------------------------------- faults
\* The awaits inside the try block that call the Transaction, Merchant or
\* ReconciliationRun collections.
StoreCalls ==
    {"loadBank", "loadMerchant", "bank", "exactMerchant", "tolerant",
     "mismatchBank", "mismatchMerchant", "unmatchedBank", "lookup", "sweep",
     "sla", "format", "save"}

\* The awaits inside the try block that call Alert.createAlert.
AlertCalls == {"disputeAlert", "completeAlert"}

\* Variant of Catch that records the error but leaves run.status alone.
CatchWithoutStatus(r, message) ==
    /\ run' = [run EXCEPT ![r].errors = Append(@, [message |-> message])]
    /\ pc' = [pc EXCEPT ![r] = "catchSave"]
    /\ UNCHANGED <<txns, merchants, alerts, runs, req, loc, resp, writes, pairs>>

\* catch (error): run.status = 'FAILED'; run.errors.push({message}); the
\* handler is then suspended at await run.save().
Catch(r, message) ==
    /\ run' = [run EXCEPT ![r].status = "FAILED",
                          ![r].errors = Append(@, [message |-> message])]
    /\ pc' = [pc EXCEPT ![r] = "catchSave"]
    /\ UNCHANGED <<txns, merchants, alerts, runs, req, loc, resp, writes, pairs>>

\* A store call of the try block rejects.
StoreFault(r) ==
    /\ pc[r] \in StoreCalls
    /\ Catch(r, "store error")

\* alert.save() inside Alert.createAlert rejects; createAlert has no catch.
AlertFault(r) ==
    /\ pc[r] \in AlertCalls
    /\ Catch(r, "alert error")

\* catch: await run.save() succeeds; throw error -> asyncHandler -> next(err)
CatchSave(r) ==
    /\ pc[r] = "catchSave"
    /\ runs' = [runs EXCEPT ![r] = run[r]]
    /\ resp' = [resp EXCEPT ![r] = run[r].errors[Len(run[r].errors)].message]
    /\ pc' = [pc EXCEPT ![r] = "done"]
    /\ UNCHANGED <<txns, merchants, alerts, req, run, loc, writes, pairs>>

\* catch: await run.save() rejects; that rejection reaches asyncHandler.
CatchSaveFault(r) ==
    /\ pc[r] = "catchSave"
    /\ resp' = [resp EXCEPT ![r] = "store error"]
    /\ pc' = [pc EXCEPT ![r] = "done"]
    /\ UNCHANGED <<txns, merchants, alerts, runs, req, run, loc, writes, pairs>>

\* ReconciliationRun.create rejects: it is outside the try block.
CreateFault(r) ==
    /\ pc[r] = "idle"
    /\ req[r] # NoReq
    /\ resp' = [resp EXCEPT ![r] = "store error"]
    /\ pc' = [pc EXCEPT ![r] = "done"]
    /\ UNCHANGED <<txns, merchants, alerts, runs, req, run, loc, writes, pairs>>

\* ----------------------------------------------------------- specifications
Step(r) ==
    \/ Create(r)
    \/ LoadBank(r)
    \/ LoadMerchant(r)
    \/ ExactWriteBank(r)
    \/ ExactWriteMerchant(r)
    \/ FuzzyFind(r)
    \/ TolerantWrite(r)
    \/ MismatchWriteBank(r)
    \/ MismatchWriteMerchant(r)
    \/ DisputeAlert(r)
    \/ UnmatchedBankWrite(r)
    \/ LookupMerchant(r)
    \/ SweepWrite(r)
    \/ SlaCount(r)
    \/ FormatMerchant(r)
    \/ SaveRun(r)
    \/ LogAction(r)
    \/ CompleteAlert(r)

Fault(r) ==
    \/ StoreFault(r)
    \/ AlertFault(r)
    \/ CatchSave(r)
    \/ CatchSaveFault(r)
    \/ CreateFault(r)

\* One invocation, every collaborator call succeeds.
Next == \E r \in RunIds : Step(r)

Spec == Init /\ [][Next]_vars


\* One invocation; any awaited call may reject.
NextF == \E r \in RunIds : Step(r) \/ Fault(r)

SpecF == Init /\ [][NextF]_vars

\* Two invocations with the same body, interleaved at every await.
TwoRequests == {[r \in RunIds |-> IF r <= 2 THEN c ELSE NoReq] : c \in Configs}

InitConc == InitWith(Stores(1, 1), TwoRequests)

SpecConc == InitConc /\ [][Next]_vars

\* One invocation with the default date range and a window of 0 hours, with
\* and without tolerance; any awaited call may reject.
FaultRequests ==
    {[r \in RunIds |-> IF r = 1 THEN c ELSE NoReq] :
        c \in {c \in Configs : c.date_window_hours = 0 /\ c.start_date = NoDate}}

InitFault == InitWith(Stores(MaxBank, MaxMerchant), FaultRequests)

SpecFault == InitFault /\ [][NextF]_vars

\* One invocation whose body carries a negative window, a negative tolerance
\* or a date range that starts after its end.  The handler destructures
\* req.body and passes the values on as they are.
InvalidConfigs ==
    {c \in [date_window_hours : {-1, 0},
            amount_tolerance : {-1, 1},
            include_merchants : {{}},
            exclude_merchants : {{}},
            start_date : {NoDate, 1},
            end_date : {NoDate, 0}] :
        \/ c.date_window_hours < 0
        \/ c.amount_tolerance < 0
        \/ (c.start_date # NoDate /\ c.end_date # NoDate /\ c.start_date > c.end_date)}

InvalidRequests ==
    {[r \in RunIds |-> IF r = 1 THEN c ELSE NoReq] : c \in InvalidConfigs}

InitInvalid == InitWith(Stores(MaxBank, MaxMerchant), InvalidRequests)

SpecInvalid == InitInvalid /\ [][Next]_vars

\* ----------------------------------------------------------- other handlers
\* No value: the body carries no new_status / no updates.reconciliation_status.
NoStatus == "NONE"

\* The values a caller may send as a reconciliation_status.
StatusInputs == {NoStatus, PENDING, MATCHED}

\* resolveDispute (PUT /disputes/:id/resolve): 404 for an unknown id, 400
\* for a record that is not disputed; otherwise dispute_resolved = true,
\* reconciliation_status = new_status when one is given, save().
ResolveDispute(id, new_status) ==
    /\ id \in 1..Len(txns)
    /\ txns[id].is_disputed
    /\ txns' = [txns EXCEPT ![id] =
             Merge(@, IF new_status # NoStatus
                      THEN [dispute_resolved |-> TRUE,
                            reconciliation_status |-> new_status]
                      ELSE [dispute_resolved |-> TRUE])]
    /\ UNCHANGED <<merchants, alerts, runs, req, run, loc, pc, resp, writes, pairs>>

\* bulkUpdateTransactions (POST /transactions/bulk-update): 400 for an empty
\* id list; otherwise updateMany({_id: {$in: ids}}, {$set: sanitizedUpdates})
\* with reconciliation_status among the allowed keys.
BulkUpdateTransactions(transaction_ids, status) ==
    /\ transaction_ids # {}
    /\ transaction_ids \subseteq 1..Len(txns)
    /\ txns' = [id \in 1..Len(txns) |->
             IF id \in transaction_ids /\ status # NoStatus
             THEN Merge(txns[id], [reconciliation_status |-> status])
             ELSE txns[id]]
    /\ UNCHANGED <<merchants, alerts, runs, req, run, loc, pc, resp, writes, pairs>>

\* One invocation of runReconciliation, with calls of the two other
\* handlers that write reconciliation_status at any point.
NextOps ==
    \/ Next
    \/ \E id \in 1..Len(txns) : \E st \in StatusInputs : ResolveDispute(id, st)
    \/ \E ids \in SUBSET (1..Len(txns)) : \E st \in StatusInputs :
          BulkUpdateTransactions(ids, st)

InitOps == InitWith(Stores(1, 1), OneRequest)

SpecOps == InitOps /\ [][NextOps]_vars

\* Merchant.findOne rejects (the registry is unavailable): in the bank loop
\* (unknown-merchant check) or while the merchant summary is formatted.
\* Both awaits are inside the try block and have no catch of their own.
RegistryCalls == {"lookup", "format"}

RegistryFault(r) ==
    /\ pc[r] \in RegistryCalls
    /\ Catch(r, "registry error")

\* One invocation over any registry; only Merchant.findOne may reject.
InitRegistry ==
    /\ txns \in Stores(MaxBank, MaxMerchant)
    /\ merchants \in SUBSET {"M1", "M2"}
    /\ alerts = <<>>
    /\ runs = [r \in RunIds |-> NoRun]
    /\ req \in OneRequest
    /\ run = [r \in RunIds |-> NoRun]
    /\ loc = [r \in RunIds |-> NoLoc]
    /\ pc = [r \in RunIds |-> "idle"]
    /\ resp = [r \in RunIds |-> "none"]
    /\ writes = [id \in 1..Len(txns) |-> <<>>]
    /\ pairs = {}

NextRegistry == \E r \in RunIds : Step(r) \/ RegistryFault(r) \/ CatchSave(r)

SpecRegistry == InitRegistry /\ [][NextRegistry]_vars

\* Two invocations with the same body, the second one requested after the
\* first has answered; every call succeeds.
NextSeq ==
    \E r \in RunIds :
        /\ IF r = 1 THEN TRUE ELSE pc[r - 1] = "done"
        /\ Step(r)

InitSeq == InitWith(Stores(MaxBank, MaxMerchant), TwoRequests)

SpecSeq == InitSeq /\ [][NextSeq]_vars

\* =================================================================== claims
Ids == 1..Len(txns)

Completed(r) == runs[r].status = "COMPLETED"

\* The BANK records run r set to MATCHED.
MatchedBank(r) ==
    {id \in Ids : /\ txns[id].source = "BANK"
                  /\ txns[id].reconciliation_status = MATCHED
                  /\ txns[id].reconciliation_run_id = r}

AmountSum(S) ==
    SumSeq([id \in Ids |-> IF id \in S THEN txns[id].amount ELSE 0])

\* The fallback selections of run r whose writes are all done.
FallbackDone(r) ==
    {p \in pairs : p[1] = r /\ p[4] = "fallback" /\ p[2] \in loc[r].matchedBankIds}

\* C1: pairing integrity.  Once a run is COMPLETED, every MATCHED record
\* references a counterpart that is MATCHED, references it back and carries
\* the same run id, for exact and for tolerant matches alike.
C1_PairingIntegrity ==
    (\E r \in RunIds : Completed(r)) =>
        \A id \in Ids :
            txns[id].reconciliation_status = MATCHED =>
                LET w == txns[id].reconciled_with
                IN  /\ w \in Ids
                    /\ txns[w].reconciliation_status = MATCHED
                    /\ txns[w].reconciled_with = id
                    /\ txns[w].reconciliation_run_id = txns[id].reconciliation_run_id

\* C2: tolerance boundary.  For every fallback outcome of a COMPLETED run, a
\* difference equal to amount_tolerance leaves both records MATCHED and a
\* difference of amount_tolerance + 1 leaves both AMOUNT_MISMATCH; no record
\* is AMOUNT_MISMATCH with a dispute_amount within the tolerance.
C2_ToleranceBoundary ==
    \A r \in RunIds :
        Completed(r) =>
            /\ \A p \in FallbackDone(r) :
                 LET diff == Abs(txns[p[2]].amount - txns[p[3]].amount)
                     both(st) == /\ txns[p[2]].reconciliation_status = st
                                 /\ txns[p[3]].reconciliation_status = st
                 IN  /\ diff = req[r].amount_tolerance => both(MATCHED)
                     /\ diff = req[r].amount_tolerance + 1 => both(AMOUNT_MISMATCH)
            /\ \A id \in Ids :
                 (/\ txns[id].reconciliation_status = AMOUNT_MISMATCH
                  /\ txns[id].reconciliation_run_id = r)
                     => txns[id].dispute_amount > req[r].amount_tolerance

\* C3: after a COMPLETED run, total_matched_amount is the sum of the amounts
\* of the BANK records the run set to MATCHED (exact or tolerant).
C3_MatchedAmountIsBankSum ==
    \A r \in RunIds :
        Completed(r) => runs[r].total_matched_amount = AmountSum(MatchedBank(r))

BankCounted(d) == d.matched + d.unmatched_bank + d.amount_mismatch

\* C4: bank-side conservation.  At every point of a run the three outcome
\* counters add up to at most total_bank_transactions; at the head of the
\* bank loop they add up to the number of records already visited; and for
\* a COMPLETED run they add up to total_bank_transactions.
C4_BankConservation ==
    \A r \in RunIds :
        /\ run[r] # NoRun =>
              BankCounted(run[r]) <= run[r].total_bank_transactions
        /\ pc[r] = "bank" => BankCounted(run[r]) = loc[r].i - 1
        /\ Completed(r) =>
              BankCounted(runs[r]) = runs[r].total_bank_transactions

\* C4 witness: a COMPLETED run over two bank records with two different
\* outcomes counted.
C4_Witness ==
    \E r \in RunIds :
        /\ Completed(r)
        /\ runs[r].total_bank_transactions = 2
        /\ runs[r].matched = 1
        /\ runs[r].amount_mismatch = 1

\* C5: merchant-side conservation.  For a COMPLETED run, matched +
\* amount_mismatch + unmatched_merchant is at most
\* total_merchant_transactions, for every configuration.
C5_MerchantConservation ==
    \A r \in RunIds :
        Completed(r) =>
            runs[r].matched + runs[r].amount_mismatch + runs[r].unmatched_merchant
                <= runs[r].total_merchant_transactions


TimesWrittenBy(r, id) ==
    Cardinality({n \in 1..Len(writes[id]) : writes[id][n] = r})

\* C6: status monotonicity within a run.  No run writes the
\* reconciliation_status of the same record twice: bank loop and sweep never
\* touch a record the run has already given a non-PENDING status.
C6_StatusWrittenOnce ==
    \A r \in RunIds : \A id \in Ids : TimesWrittenBy(r, id) <= 1

\* C6 witness: a COMPLETED run that claimed one merchant record in the bank
\* loop and swept another.
C6_Witness ==
    \E r \in RunIds : \E m1, m2 \in Ids :
        /\ Completed(r)
        /\ m1 \in loc[r].matchedMerchantIds
        /\ txns[m1].reconciliation_status = MATCHED
        /\ txns[m2].reconciliation_status = UNMATCHED_MERCHANT
        /\ TimesWrittenBy(r, m1) = 1
        /\ TimesWrittenBy(r, m2) = 1

Terminal(st) == st \in {"COMPLETED", "FAILED"}

\* C7: a run's persisted status leaves RUNNING once; a persisted terminal
\* status is never changed again, whichever collaborator call rejects.
C7_TerminalStatusFinal ==
    [][\A r \in RunIds :
          Terminal(runs[r].status) => runs'[r].status = runs[r].status]_vars

\* The only calls that rejected in invocation r were Alert.createAlert calls.
OnlyNotifierFailed(r) ==
    /\ run[r] # NoRun
    /\ run[r].errors # <<>>
    /\ \A n \in 1..Len(run[r].errors) : run[r].errors[n].message = "alert error"
    /\ resp[r] # "store error"

\* C8: a Notifier failure never fails the run.  An invocation in which only
\* alert creation rejected ends with the run COMPLETED and a 200 response.
C8_NotifierFailureHarmless ==
    \A r \in RunIds :
        (pc[r] = "done" /\ OnlyNotifierFailed(r)) =>
            (runs[r].status = "COMPLETED" /\ resp[r] = "200")

\* C9: with two concurrent invocations, no record has its
\* reconciliation_status written by more than one run.
C9_NoRecordWrittenByTwoRuns ==
    \A id \in Ids : Cardinality({writes[id][n] : n \in 1..Len(writes[id])}) <= 1

\* C10: within a run, a merchant record is selected for at most one bank
\* record, whichever stage (exact or fallback) selected it.
C10_OneBankPerMerchant ==
    \A p, q \in pairs : (p[1] = q[1] /\ p[3] = q[3]) => p[2] = q[2]

\* C10 witness: the fallback stage claimed a merchant record that lies in
\* the exact bucket, within the date window, of a later bank record, and
\* that later bank record was matched by the exact stage.
C10_Witness ==
    \E p, q \in pairs :
        /\ p[1] = q[1]
        /\ Completed(p[1])
        /\ p[4] = "fallback"
        /\ q[4] = "exact"
        /\ p[2] < q[2]
        /\ MatchKey(txns[p[3]]) = MatchKey(txns[q[2]])
        /\ HoursDiff(txns[p[3]].transaction_date, txns[q[2]].transaction_date)
              <= req[p[1]].date_window_hours

\* The last error the catch block of invocation r recorded.
LastError(r) == run[r].errors[Len(run[r].errors)].message

\* The catch block of invocation r recorded a rejected store call.
StoreFailed(r) ==
    /\ run[r] # NoRun
    /\ run[r].errors # <<>>
    /\ LastError(r) = "store error"

\* The records whose status run r has written.
WrittenBy(r) == {id \in Ids : TimesWrittenBy(r, id) > 0}

InvalidConfig(c) ==
    \/ c.amount_tolerance < 0
    \/ c.date_window_hours < 0
    \/ (c.start_date # NoDate /\ c.end_date # NoDate /\ c.start_date > c.end_date)

\* C12: an invocation with an invalid configuration is rejected before the
\* run starts: no ReconciliationRun document is created for it and it
\* modifies no transaction.
C12_InvalidConfigRejected ==
    \A r \in RunIds :
        (req[r] # NoReq /\ InvalidConfig(req[r])) =>
            /\ runs[r] = NoRun
            /\ WrittenBy(r) = {}

\* C13: every invocation that created a run ends with that run persisted
\* as COMPLETED or FAILED: once the handler has returned, the run it
\* created is not RUNNING, whichever calls rejected on the way.
C13_NoRunLeftRunning ==
    \A r \in RunIds :
        (pc[r] = "done" /\ runs[r] # NoRun) => Terminal(runs[r].status)

\* No record of the store lies inside the date range of request r (the
\* requests carry no merchant filter and every record starts PENDING).
NoRecordInScope(r) ==
    \A id \in Ids :
        \/ (req[r].start_date # NoDate /\ txns[id].transaction_date < req[r].start_date)
        \/ (req[r].end_date # NoDate /\ txns[id].transaction_date > req[r].end_date)

\* Every summary count and every amount total of run document d is zero and
\* its merchant summary is empty.
AllZero(d) ==
    /\ d.total_bank_transactions = 0 /\ d.total_merchant_transactions = 0
    /\ d.matched = 0 /\ d.unmatched_bank = 0 /\ d.unmatched_merchant = 0
    /\ d.amount_mismatch = 0 /\ d.disputes_detected = 0
    /\ d.sla_breaches = 0 /\ d.unknown_merchants = 0
    /\ d.total_matched_amount = 0 /\ d.total_unmatched_bank_amount = 0
    /\ d.total_unmatched_merchant_amount = 0
    /\ d.total_mismatch_difference = 0
    /\ d.merchant_summary = <<>>

\* C14: empty input.  When no PENDING record matches the filter, the run
\* modifies no transaction, raises no dispute alert, and ends COMPLETED with
\* every count and amount zero and an empty merchant summary.
C14_EmptyInput ==
    \A r \in RunIds :
        (req[r] # NoReq /\ NoRecordInScope(r)) =>
            /\ WrittenBy(r) = {}
            /\ \A id \in Ids : txns[id].reconciliation_status = PENDING
            /\ \A n \in 1..Len(alerts) : alerts[n].type # "DISPUTE_DETECTED"
            /\ run[r] # NoRun => AllZero(run[r])
            /\ pc[r] = "done" =>
                  /\ Completed(r)
                  /\ AllZero(runs[r])
                  /\ resp[r] = "200"

\* C14 witness: a run that has returned over a store holding a BANK and a
\* MERCHANT record with the same matching key, both outside the date range.
C14_Witness ==
    \E r \in RunIds : \E b, m \in Ids :
        /\ pc[r] = "done"
        /\ NoRecordInScope(r)
        /\ txns[b].source = "BANK"
        /\ txns[m].source = "MERCHANT"
        /\ MatchKey(txns[b]) = MatchKey(txns[m])
        /\ Completed(r)

\* Bank record b and merchant record m agree on transaction_id, merchant_id
\* and amount.
SameKey(b, m) ==
    /\ txns[b].transaction_id = txns[m].transaction_id
    /\ txns[b].merchant_id = txns[m].merchant_id
    /\ txns[b].amount = txns[m].amount

\* Distance in hours between the dates of two records.
Hours(b, m) == Abs(txns[b].transaction_date - txns[m].transaction_date)

\* The merchant records of run r's index that are unclaimed, have the key
\* of the bank record at the loop position and lie within the window.
EligibleNow(r) ==
    {m \in Ids :
        /\ \E n \in 1..Len(loc[r].merchantTransactions) :
              loc[r].merchantTransactions[n] = m
        /\ m \notin loc[r].matchedMerchantIds
        /\ SameKey(BankAt(r), m)
        /\ Hours(BankAt(r), m) <= req[r].date_window_hours}

\* C15: date window of the exact stage.  At a bank record's turn the exact
\* path is taken exactly when an unclaimed candidate with the same
\* (transaction_id, merchant_id, amount) lies at most date_window_hours
\* away (a distance equal to the window included), and the candidate it
\* selects is such a record; with a larger distance only, the exact path is
\* not taken.
C15_DateWindowInclusive ==
    [][\A r \in RunIds :
          (pc[r] = "bank" /\ pc'[r] # "bank") =>
              /\ (pc'[r] = "exactMerchant") <=> (EligibleNow(r) # {})
              /\ (pc'[r] = "exactMerchant") => (loc'[r].other \in EligibleNow(r))]_vars

\* C15 witness: in one COMPLETED run with a window of 0 hours, a candidate
\* exactly 0 hours away was matched by the exact stage, and a bank record
\* whose only same-key candidate was 1 hour away went to the fallback.
C15_Witness ==
    \E p, q \in pairs :
        /\ p[1] = q[1]
        /\ Completed(p[1])
        /\ req[p[1]].date_window_hours = 0
        /\ p[4] = "exact"
        /\ Hours(p[2], p[3]) = 0
        /\ q[4] = "fallback"
        /\ SameKey(q[2], q[3])
        /\ Hours(q[2], q[3]) = 1

\* The DISPUTE_DETECTED alerts run r created.
DisputeAlerts(r) ==
    {n \in 1..Len(alerts) :
        alerts[n].type = "DISPUTE_DETECTED" /\ alerts[n].run = r}

\* The fallback selections of run r whose two mismatch writes are done.
MismatchDone(r) ==
    {p \in pairs :
        /\ p[1] = r /\ p[4] = "fallback"
        /\ txns[p[3]].reconciliation_status = AMOUNT_MISMATCH}

PairDiff(p) == Abs(txns[p[2]].amount - txns[p[3]].amount)

RECURSIVE SumDiff(_)
SumDiff(S) ==
    IF S = {} THEN 0
    ELSE LET p == CHOOSE q \in S : TRUE IN PairDiff(p) + SumDiff(S \ {p})

\* What a completed mismatch outcome leaves behind: both records
\* AMOUNT_MISMATCH and disputed with the difference, counted once in
\* amount_mismatch and in total_mismatch_difference, alerts of severity HIGH.
MismatchOutcome(r) ==
    /\ \A p \in MismatchDone(r) :
          \A id \in {p[2], p[3]} :
              /\ txns[id].reconciliation_status = AMOUNT_MISMATCH
              /\ txns[id].is_disputed
              /\ txns[id].dispute_amount = PairDiff(p)
    /\ \A p \in FallbackDone(r) :
          PairDiff(p) > req[r].amount_tolerance => p \in MismatchDone(r)
    /\ run[r].amount_mismatch = Cardinality(MismatchDone(r))
    /\ run[r].total_mismatch_difference = SumDiff(MismatchDone(r))
    /\ \A n \in DisputeAlerts(r) :
          /\ alerts[n].severity = "HIGH"
          /\ \E p \in MismatchDone(r) : alerts[n].bank = p[2]

\* C16 as stated: every mismatch outcome is written, counted and alerted as
\* described, hence in every state of a run disputes_detected =
\* amount_mismatch = number of dispute alerts the run created.
C16_DisputesEqualAlertsAlways ==
    \A r \in RunIds :
        run[r] # NoRun =>
            /\ MismatchOutcome(r)
            /\ run[r].disputes_detected = run[r].amount_mismatch
            /\ run[r].amount_mismatch = Cardinality(DisputeAlerts(r))

\* The alert of the last counted mismatch is not saved: the handler is
\* suspended in its creation, or that creation rejected.
AlertOutstanding(r) ==
    \/ pc[r] = "disputeAlert"
    \/ /\ pc[r] \in {"catchSave", "done"}
       /\ run[r].errors # <<>>
       /\ LastError(r) = "alert error"
       /\ loc[r].i <= Len(loc[r].bankTransactions)

\* C16 amended: every mismatch outcome is written and counted as described
\* and disputes_detected = amount_mismatch in every state; the number of
\* dispute alerts equals them except from the counter increments until the
\* alert of that pair is saved, when it is one less.
C16_DisputesEqualAlerts ==
    \A r \in RunIds :
        run[r] # NoRun =>
            /\ MismatchOutcome(r)
            /\ run[r].disputes_detected = run[r].amount_mismatch
            /\ Cardinality(DisputeAlerts(r)) =
                  run[r].amount_mismatch - (IF AlertOutstanding(r) THEN 1 ELSE 0)
            /\ Completed(r) =>
                  /\ runs[r].disputes_detected = runs[r].amount_mismatch
                  /\ runs[r].amount_mismatch = Cardinality(DisputeAlerts(r))

\* C16 witness: a COMPLETED run with tolerance 0 that counted one mismatch
\* of difference 1 and created its one alert.
C16_Witness ==
    \E r \in RunIds : \E p \in MismatchDone(r) :
        /\ Completed(r)
        /\ req[r].amount_tolerance = 0
        /\ PairDiff(p) = 1
        /\ runs[r].amount_mismatch = 1
        /\ runs[r].disputes_detected = 1
        /\ runs[r].total_mismatch_difference = 1
        /\ Cardinality(DisputeAlerts(r)) = 1

\* C17: no operation moves a transaction's reconciliation_status from a
\* non-PENDING value back to PENDING: not runReconciliation, not
\* resolveDispute, not bulkUpdateTransactions.
C17_NeverBackToPending ==
    [][\A id \in Ids :
          txns[id].reconciliation_status # PENDING =>
              txns'[id].reconciliation_status # PENDING]_vars

\* The number of BANK records that carry run r's id with status st.
BankWritten(r, st) ==
    Cardinality({id \in Ids : /\ txns[id].source = "BANK"
                              /\ txns[id].reconciliation_run_id = r
                              /\ txns[id].reconciliation_status = st})

\* The store rejected the second write of a pair: the bank record at the
\* loop position carries the run's MATCHED or AMOUNT_MISMATCH, the run never
\* claimed it, and the catch block recorded a store error.
SecondWriteFailed(r) ==
    /\ pc[r] \in {"catchSave", "done"}
    /\ StoreFailed(r)
    /\ loc[r].i <= Len(loc[r].bankTransactions)
    /\ BankAt(r) \notin loc[r].matchedBankIds
    /\ BankAt(r) \in WrittenBy(r)
    /\ txns[BankAt(r)].reconciliation_status \in {MATCHED, AMOUNT_MISMATCH}

HalfPair(r) ==
    /\ pc[r] \in {"catchSave", "done"}
    /\ run[r] # NoRun
    /\ run[r].status = "FAILED"
    /\ loc[r].i <= Len(loc[r].bankTransactions)
    /\ loc[r].other # Null
    /\ txns[BankAt(r)].reconciliation_status \in {MATCHED, AMOUNT_MISMATCH}
    /\ txns[BankAt(r)].reconciliation_run_id = r
    /\ txns[loc[r].other].reconciliation_status = PENDING
    /\ txns[loc[r].other].reconciliation_run_id = Null

\* C19: a pair update is two separate writes.  When the store rejects the
\* second write of an exact-match or amount-mismatch pair, the bank record
\* is already MATCHED (AMOUNT_MISMATCH) with the run's id and the merchant
\* record still PENDING; the run goes to FAILED and nothing it does
\* afterwards repairs the pair.
C19_HalfWrittenPair ==
    [][\A r \in RunIds :
          /\ (pc[r] \in {"exactMerchant", "mismatchMerchant"}
                /\ pc'[r] = "catchSave") => HalfPair(r)'
          /\ HalfPair(r) => HalfPair(r)'
          /\ (HalfPair(r) /\ runs'[r] # runs[r]) => runs'[r].status = "FAILED"]_vars

\* C19 witness: the handler has returned with the run persisted FAILED, the
\* bank record AMOUNT_MISMATCH and disputed, its merchant counterpart PENDING.
C19_Witness ==
    \E r \in RunIds :
        /\ pc[r] = "done"
        /\ HalfPair(r)
        /\ runs[r].status = "FAILED"
        /\ txns[BankAt(r)].reconciliation_status = AMOUNT_MISMATCH
        /\ txns[BankAt(r)].is_disputed
        /\ ~txns[loc[r].other].is_disputed

\* The position of bank record b in run r's bank pool.
BankPos(r, b) ==
    CHOOSE n \in 1..Len(loc[r].bankTransactions) : loc[r].bankTransactions[n] = b

\* The awaits of a bank-loop iteration that follow the choice of the stage.
StageChosen ==
    {"exactMerchant", "tolerant", "mismatchBank", "mismatchMerchant",
     "disputeAlert", "unmatchedBank", "lookup"}

\* The bank records of run r whose stage has been chosen, and those whose
\* iteration is over.
Decided(r) ==
    {loc[r].bankTransactions[n] : n \in
        {n \in 1..Len(loc[r].bankTransactions) :
            n < loc[r].i \/ (n = loc[r].i /\ pc[r] \in StageChosen)}}

Finished(r) ==
    {loc[r].bankTransactions[n] : n \in
        {n \in 1..Len(loc[r].bankTransactions) : n < loc[r].i}}

\* At bank record b's turn the index of run r held a merchant record of
\* b's key, within the window, that no earlier bank record had selected.
EligibleAtTurn(r, b) ==
    \E m \in Ids :
        /\ \E n \in 1..Len(loc[r].merchantTransactions) :
              loc[r].merchantTransactions[n] = m
        /\ SameKey(b, m)
        /\ Hours(b, m) <= req[r].date_window_hours
        /\ ~\E p \in pairs :
              p[1] = r /\ p[3] = m /\ BankPos(r, p[2]) < BankPos(r, b)

\* C20: the fallback is taken only if the exact stage finds nothing.  A
\* bank record that had an eligible exact candidate at its turn was never
\* handed to the fallback, is never AMOUNT_MISMATCH or UNMATCHED_BANK, and
\* ends MATCHED with a record of its key bucket.
C20_ExactBeforeFallback ==
    \A r \in RunIds :
        \A b \in Decided(r) :
            EligibleAtTurn(r, b) =>
                /\ \E p \in pairs :
                      p[1] = r /\ p[2] = b /\ p[4] = "exact" /\ SameKey(b, p[3])
                /\ ~\E p \in pairs : p[1] = r /\ p[2] = b /\ p[4] = "fallback"
                /\ txns[b].reconciliation_status \in {PENDING, MATCHED}
                /\ b \in Finished(r) =>
                      /\ txns[b].reconciliation_status = MATCHED
                      /\ txns[b].reconciled_with \in Ids
                      /\ SameKey(b, txns[b].reconciled_with)
                      /\ Hours(b, txns[b].reconciled_with) <= req[r].date_window_hours

\* C20 witness: a COMPLETED run matched a bank record by the exact stage
\* although a record the fallback query would have returned first (same
\* transaction_id and merchant_id, another amount, earlier in the store)
\* was pending at its turn; that record ended UNMATCHED_MERCHANT.
C20_Witness ==
    \E p \in pairs : \E m \in Ids :
        /\ Completed(p[1])
        /\ p[4] = "exact"
        /\ txns[p[2]].reconciliation_status = MATCHED
        /\ m < p[3]
        /\ txns[m].source = "MERCHANT"
        /\ txns[m].transaction_id = txns[p[2]].transaction_id
        /\ txns[m].merchant_id = txns[p[2]].merchant_id
        /\ txns[m].amount # txns[p[2]].amount
        /\ txns[m].reconciliation_status = UNMATCHED_MERCHANT

\* The position of merchant record m in run r's merchant pool.
MerchantPos(r, m) ==
    CHOOSE n \in 1..Len(loc[r].merchantTransactions) :
        loc[r].merchantTransactions[n] = m

\* The merchant records of run r's pool that had b's key, lay within the
\* window and had not been selected by an earlier bank record at b's turn.
EligibleSetAtTurn(r, b) ==
    {m \in Ids :
        /\ \E n \in 1..Len(loc[r].merchantTransactions) :
              loc[r].merchantTransactions[n] = m
        /\ SameKey(b, m)
        /\ Hours(b, m) <= req[r].date_window_hours
        /\ ~\E p \in pairs :
              p[1] = r /\ p[3] = m /\ BankPos(r, p[2]) < BankPos(r, b)}

\* C21: tie-break.  The record the exact stage selects for a bank record is
\* the first, in pool order, of the bucket entries that are unclaimed and
\* within the window at its turn; hence of two bank records matched out of
\* one bucket the earlier one holds the earlier entry whenever that entry
\* was eligible for both.
C21_FirstEligibleInPoolOrder ==
    /\ \A p \in pairs :
          p[4] = "exact" =>
              /\ p[3] \in EligibleSetAtTurn(p[1], p[2])
              /\ \A m \in EligibleSetAtTurn(p[1], p[2]) :
                    MerchantPos(p[1], p[3]) <= MerchantPos(p[1], m)
    /\ \A p, q \in pairs :
          (/\ p[1] = q[1] /\ p[4] = "exact" /\ q[4] = "exact"
           /\ BankPos(p[1], p[2]) < BankPos(p[1], q[2])
           /\ q[3] \in EligibleSetAtTurn(p[1], p[2]))
              => MerchantPos(p[1], p[3]) < MerchantPos(p[1], q[3])

\* C21 witness: a COMPLETED run over two bank records and two merchant
\* records that all share one key and one date: the first bank record
\* holds the first bucket entry, the second the second.
C21_Witness ==
    \E p, q \in pairs :
        /\ p[1] = q[1]
        /\ Completed(p[1])
        /\ p[4] = "exact" /\ q[4] = "exact"
        /\ BankPos(p[1], p[2]) = 1 /\ BankPos(p[1], q[2]) = 2
        /\ SameKey(p[2], q[3]) /\ SameKey(q[2], p[3])
        /\ Hours(p[2], q[3]) = 0
        /\ MerchantPos(p[1], p[3]) = 1 /\ MerchantPos(p[1], q[3]) = 2
        /\ txns[p[2]].reconciled_with = p[3]
        /\ txns[q[2]].reconciled_with = q[3]

\* The records of run r's two pools.
BankPool(r) ==
    {loc[r].bankTransactions[n] : n \in 1..Len(loc[r].bankTransactions)}

MerchantPool(r) ==
    {loc[r].merchantTransactions[n] : n \in 1..Len(loc[r].merchantTransactions)}

\* The merchant records run r selected for a bank record during the loop.
Selected(r) == {p[3] : p \in {q \in pairs : q[1] = r}}

\* The merchant records of the pool the sweep of run r is responsible for.
Unclaimed(r) == MerchantPool(r) \ Selected(r)

\* The unmatched count of merchant mid in a persisted merchant_summary.
UnmatchedOf(d, mid) ==
    SumSeq([n \in 1..Len(d.merchant_summary) |->
              IF d.merchant_summary[n].merchant_id = mid
              THEN d.merchant_summary[n].unmatched ELSE 0])

\* C22: the sweep.  After a COMPLETED run every merchant record of the pool
\* that the loop did not claim is UNMATCHED_MERCHANT with the run's id and
\* counted in unmatched_merchant, in total_unmatched_merchant_amount and in
\* its merchant's unmatched; the claimed ones keep the status the loop gave
\* them; no record of either pool is PENDING; and at no point has the run
\* written a record twice.
C22_SweepCoversUnclaimed ==
    \A r \in RunIds :
        /\ \A m \in MerchantPool(r) : TimesWrittenBy(r, m) <= 1
        /\ Completed(r) =>
              /\ \A m \in Unclaimed(r) :
                    /\ txns[m].reconciliation_status = UNMATCHED_MERCHANT
                    /\ txns[m].reconciliation_run_id = r
              /\ \A m \in MerchantPool(r) \cap Selected(r) :
                    txns[m].reconciliation_status \in {MATCHED, AMOUNT_MISMATCH}
              /\ runs[r].unmatched_merchant = Cardinality(Unclaimed(r))
              /\ runs[r].total_unmatched_merchant_amount = AmountSum(Unclaimed(r))
              /\ \A mid \in {txns[id].merchant_id : id \in Ids} :
                    UnmatchedOf(runs[r], mid) =
                        Cardinality({m \in Unclaimed(r) : txns[m].merchant_id = mid})
                        + Cardinality({b \in BankPool(r) :
                              /\ txns[b].merchant_id = mid
                              /\ txns[b].reconciliation_status = UNMATCHED_BANK})
              /\ \A id \in BankPool(r) \cup MerchantPool(r) :
                    txns[id].reconciliation_status # PENDING

\* C22 witness: a COMPLETED run whose pool of two merchant records had one
\* claimed by the loop (MATCHED) and the other, the last of the pool, swept.
C22_Witness ==
    \E r \in RunIds : \E m1, m2 \in MerchantPool(r) :
        /\ Completed(r)
        /\ m1 \in Selected(r)
        /\ txns[m1].reconciliation_status = MATCHED
        /\ m2 \in Unclaimed(r)
        /\ m1 < m2
        /\ txns[m2].reconciliation_status = UNMATCHED_MERCHANT
        /\ runs[r].unmatched_merchant = 1

\* The PENDING MERCHANT records of the store with b's transaction_id and
\* merchant_id.
PendingSameIds(b) ==
    {m \in Ids :
        /\ txns[m].source = "MERCHANT"
        /\ txns[m].reconciliation_status = PENDING
        /\ txns[m].transaction_id = txns[b].transaction_id
        /\ txns[m].merchant_id = txns[b].merchant_id}

\* The unmatched count of merchant mid in the handler's merchantSummary map.
MapUnmatched(ms, mid) ==
    SumSeq([n \in 1..Len(ms) |->
              IF ms[n].merchant_id = mid THEN ms[n].unmatched ELSE 0])

\* The entries of the map other than mid's.
OtherEntries(ms, mid) == SelectSeq(ms, LAMBDA e : e.merchant_id # mid)

\* C23: a bank record goes to the UNMATCHED_BANK branch exactly when, at
\* its turn, the exact stage has no eligible candidate and the store holds
\* no PENDING MERCHANT record with its transaction_id and merchant_id; that
\* branch writes the bank record only, and changes only unmatched_bank,
\* total_unmatched_bank_amount and the merchant's unmatched; no other step
\* sets a record to UNMATCHED_BANK.
C23_UnmatchedBankExactlyWhenNoCandidate ==
    [][\A r \in RunIds :
          /\ (pc[r] = "bank" /\ pc'[r] # "bank") =>
                ((pc'[r] = "unmatchedBank") <=>
                    (EligibleNow(r) = {} /\ PendingSameIds(BankAt(r)) = {}))
          /\ (pc[r] = "unmatchedBank" /\ pc'[r] # "unmatchedBank") =>
                LET b == BankAt(r)
                    mid == txns[b].merchant_id
                IN  /\ txns'[b].reconciliation_status = UNMATCHED_BANK
                    /\ txns'[b].reconciliation_run_id = r
                    /\ \A id \in Ids \ {b} : txns'[id] = txns[id]
                    /\ run'[r] = [run[r] EXCEPT
                          !.unmatched_bank = @ + 1,
                          !.total_unmatched_bank_amount = @ + txns[b].amount]
                    /\ MapUnmatched(loc'[r].merchantSummary, mid)
                          = MapUnmatched(loc[r].merchantSummary, mid) + 1
                    /\ OtherEntries(loc'[r].merchantSummary, mid)
                          = OtherEntries(loc[r].merchantSummary, mid)
                    /\ alerts' = alerts
          /\ \A id \in Ids :
                (/\ txns'[id].reconciliation_status = UNMATCHED_BANK
                 /\ txns[id].reconciliation_status # UNMATCHED_BANK) =>
                    \E q \in RunIds : pc[q] = "unmatchedBank" /\ BankAt(q) = id]_vars

\* C23 witness: a COMPLETED run left a bank record UNMATCHED_BANK although
\* the store holds a MERCHANT record with its transaction_id and
\* merchant_id: an earlier bank record had been matched with that record.
C23_Witness ==
    \E r \in RunIds : \E b, m \in Ids :
        /\ Completed(r)
        /\ txns[b].source = "BANK"
        /\ txns[b].reconciliation_status = UNMATCHED_BANK
        /\ txns[b].reconciliation_run_id = r
        /\ txns[m].source = "MERCHANT"
        /\ txns[m].transaction_id = txns[b].transaction_id
        /\ txns[m].merchant_id = txns[b].merchant_id
        /\ txns[m].reconciliation_status = MATCHED
        /\ txns[m].reconciled_with # b
        /\ runs[r].unmatched_bank = 1

\* C24: the unknown-merchant check never blocks or alters matching.
\* Whatever the registry holds and whether or not it answers, an invocation
\* ends with the run COMPLETED and every record of its pools processed, as
\* it does with a full registry, and unknown_merchants is the number of
\* bank records of the pool whose merchant_id the registry does not hold.
C24_RegistryNeverBlocks ==
    \A r \in RunIds :
        pc[r] = "done" =>
            /\ Completed(r)
            /\ resp[r] = "200"
            /\ \A id \in BankPool(r) \cup MerchantPool(r) :
                  txns[id].reconciliation_status # PENDING
            /\ runs[r].unknown_merchants =
                  Cardinality({b \in BankPool(r) : txns[b].merchant_id \notin merchants})

\* Sums over the rows of a persisted merchant_summary.
SumMatched(d) ==
    SumSeq([n \in 1..Len(d.merchant_summary) |-> d.merchant_summary[n].matched])

SumMismatches(d) ==
    SumSeq([n \in 1..Len(d.merchant_summary) |-> d.merchant_summary[n].mismatches])

SumUnmatched(d) ==
    SumSeq([n \in 1..Len(d.merchant_summary) |-> d.merchant_summary[n].unmatched])

SumTotalAmount(d) ==
    SumSeq([n \in 1..Len(d.merchant_summary) |-> d.merchant_summary[n].total_amount])

\* C25: for every COMPLETED run the per-merchant breakdown agrees with the
\* run totals: matched, mismatches, unmatched and total_amount summed over
\* merchant_summary equal summary.matched, summary.amount_mismatch,
\* unmatched_bank + unmatched_merchant and total_matched_amount.
C25_BreakdownAgreesWithTotals ==
    \A r \in RunIds :
        Completed(r) =>
            /\ SumMatched(runs[r]) = runs[r].matched
            /\ SumMismatches(runs[r]) = runs[r].amount_mismatch
            /\ SumUnmatched(runs[r]) =
                  runs[r].unmatched_bank + runs[r].unmatched_merchant
            /\ SumTotalAmount(runs[r]) = runs[r].total_matched_amount

\* Record id lies inside the date range of request r (the requests carry
\* no merchant filter).
InRange(r, id) ==
    /\ (req[r].start_date # NoDate =>
            txns[id].transaction_date >= req[r].start_date)
    /\ (req[r].end_date # NoDate =>
            txns[id].transaction_date <= req[r].end_date)

\* C26: a run modifies only records of its own candidate pools.  Every
\* record a run has written belongs to the pool it loaded for the record's
\* source and satisfies the run's filter; records outside the filter keep
\* the fields ingestion gave them.
C26_WritesOnlyPoolRecords ==
    \A r \in RunIds :
        (pc[r] \notin {"idle", "loadBank", "loadMerchant"}) =>
            /\ \A id \in WrittenBy(r) :
                  /\ id \in BankPool(r) \cup MerchantPool(r)
                  /\ InRange(r, id)
            /\ \A id \in Ids :
                  ~InRange(r, id) =>
                      /\ txns[id].reconciliation_status = PENDING
                      /\ txns[id].reconciliation_run_id = Null
                      /\ ~txns[id].is_disputed

\* C27: a run never leaves a bank record and the merchant record it
\* selected for it both MATCHED when their dates lie further apart than
\* date_window_hours, whatever the tolerance.
C27_NoMatchOutsideWindow ==
    \A p \in pairs :
        (/\ txns[p[2]].reconciliation_status = MATCHED
         /\ txns[p[3]].reconciliation_status = MATCHED
         /\ txns[p[2]].reconciliation_run_id = p[1]
         /\ txns[p[3]].reconciliation_run_id = p[1])
            => Hours(p[2], p[3]) <= req[p[1]].date_window_hours

\* Bank record b and merchant record m of run r's pools form the only
\* exact pair of their key: same key, within the window, and no other
\* record of either pool has that key.
UniqueExactPair(r, b, m) ==
    /\ b \in BankPool(r)
    /\ m \in MerchantPool(r)
    /\ SameKey(b, m)
    /\ Hours(b, m) <= req[r].date_window_hours
    /\ \A o \in BankPool(r) \ {b} : ~SameKey(o, m)
    /\ \A o \in MerchantPool(r) \ {m} : ~SameKey(b, o)

C29_SecondRunIsEmpty ==
    \A r \in RunIds \ {1} :
        (req[r] # NoReq /\ Completed(r - 1)) =>
            /\ \A id \in BankPool(r - 1) \cup MerchantPool(r - 1) \cup Selected(r - 1) :
                  txns[id].reconciliation_status # PENDING
            /\ loc[r].bankTransactions = <<>>
            /\ loc[r].merchantTransactions = <<>>
            /\ WrittenBy(r) = {}
            /\ \A id \in Ids : txns[id].reconciliation_run_id # r
            /\ run[r] # NoRun => AllZero(run[r])
            /\ pc[r] = "done" =>
                  /\ Completed(r)
                  /\ AllZero(runs[r])
                  /\ resp[r] = "200"

\* C29 witness: the second run has answered COMPLETED after a first run
\* that matched one pair and left another bank record unmatched.
C29_Witness ==
    /\ pc[2] = "done"
    /\ Completed(2)
    /\ Completed(1)
    /\ runs[1].matched = 1
    /\ runs[1].unmatched_bank = 1
    /\ runs[2].total_bank_transactions = 0

\* The number of records of source src whose stored status is st.
StoredWith(src, st) ==
    Cardinality({id \in Ids : /\ txns[id].source = src
                              /\ txns[id].reconciliation_status = st})

\* C30: when two concurrent runs both end COMPLETED, their summaries
\* together count every record once: the sums of matched, unmatched_bank,
\* unmatched_merchant and amount_mismatch over the two runs equal the
\* numbers of records stored with those statuses, and no pair of records
\* is selected by both runs.
C30_ConcurrentSummariesDisjoint ==
    (pc[1] = "done" /\ pc[2] = "done" /\ Completed(1) /\ Completed(2)) =>
        /\ runs[1].matched + runs[2].matched = StoredWith("BANK", MATCHED)
        /\ runs[1].unmatched_bank + runs[2].unmatched_bank
               = StoredWith("BANK", UNMATCHED_BANK)
        /\ runs[1].unmatched_merchant + runs[2].unmatched_merchant
               = StoredWith("MERCHANT", UNMATCHED_MERCHANT)
        /\ runs[1].amount_mismatch + runs[2].amount_mismatch
               = StoredWith("BANK", AMOUNT_MISMATCH)
        /\ \A p, q \in pairs : (p[2] = q[2] /\ p[3] = q[3]) => p[1] = q[1]

====
